---- MODULE Spec2Model ----
(***************************************************************************)
(* Model of python/python-oom-demo/oom_demo.py: the telemetry bootstrap,   *)
(* the memory ramp (ramp_memory_and_fail), the failure handler, the span   *)
(* scope, and the shutdown sequence in main's finally block.               *)
(*                                                                         *)
(* Byte quantities are real byte counts (chunk_mb * 1024 * 1024).          *)
(* Environment values are sequences of one-character strings so that       *)
(* int() and float() are computed, not assumed.                            *)
(***************************************************************************)
EXTENDS Integers, Sequences, FiniteSets, TLC

(***************************************************************************)
(* Bounds of the exploration.                                              *)
(***************************************************************************)
\* The ramp loop is `while True`; runs that never reach the cap (chunk size
\* 0) are explored up to this many loop iterations.
MaxIter == 40

(***************************************************************************)
(* Program constants.                                                      *)
(***************************************************************************)
max_mb_env == 400
MB == 1024 * 1024
max_bytes == IF max_mb_env # 0 THEN max_mb_env * MB ELSE 0

\* os.getenv defaults in main.
DEFAULT_CHUNK_MB == <<"1", "0">>
DEFAULT_SLEEP_SECONDS == <<"0", ".", "5">>

(***************************************************************************)
(* Environment: a variable is unset, or set to a string.                   *)
(***************************************************************************)
EnvUnset == [set |-> FALSE, val |-> <<>>]
EnvSet(s) == [set |-> TRUE, val |-> s]

Getenv(e, default) == IF e.set THEN e.val ELSE default

\* Values of OOM_CHUNK_MB explored.
EnvChunkValues ==
    { EnvUnset,
      EnvSet(<<"1", "0", "0">>),
      EnvSet(<<"1", "5", "0">>),
      EnvSet(<<"4", "0", "0">>),
      EnvSet(<<"5", "0", "0">>),
      EnvSet(<<"0">>),
      EnvSet(<<"-", "1">>),
      EnvSet(<<"a", "b", "c">>) }

\* Values of OOM_SLEEP_SECONDS explored.
EnvSleepValues ==
    { EnvUnset,
      EnvSet(<<"-", "1">>),
      EnvSet(<<"a", "b", "c">>) }

(***************************************************************************)
(* int() and float() on the decimal subset of their input language.        *)
(***************************************************************************)
Digits == <<"0", "1", "2", "3", "4", "5", "6", "7", "8", "9">>

IsDigit(c) == \E d \in 1..10 : Digits[d] = c

DigitVal(c) == (CHOOSE d \in 1..10 : Digits[d] = c) - 1

AllDigits(s) == \A k \in 1..Len(s) : IsDigit(s[k])

RECURSIVE DigitsValue(_, _)
DigitsValue(s, acc) ==
    IF s = <<>> THEN acc ELSE DigitsValue(Tail(s), acc * 10 + DigitVal(Head(s)))

HasSign(s) == s # <<>> /\ s[1] \in {"-", "+"}

Unsigned(s) == IF HasSign(s) THEN Tail(s) ELSE s

SignOf(s) == IF s # <<>> /\ s[1] = "-" THEN -1 ELSE 1

\* int(s): [ok, val]; ok = FALSE stands for ValueError.
ParseInt(s) ==
    LET body == Unsigned(s) IN
    IF body # <<>> /\ AllDigits(body)
        THEN [ok |-> TRUE, val |-> SignOf(s) * DigitsValue(body, 0)]
        ELSE [ok |-> FALSE, val |-> 0]

DotPositions(s) == { k \in 1..Len(s) : s[k] = "." }

\* float(s) in tenths of a second: [ok, val]; ok = FALSE stands for ValueError.
ParseFloat(s) ==
    LET body == Unsigned(s)
        dots == DotPositions(body)
        dot  == IF dots = {} THEN Len(body) + 1 ELSE CHOOSE k \in dots : TRUE
        ip   == SubSeq(body, 1, dot - 1)
        fp   == SubSeq(body, dot + 1, Len(body))
        f1   == IF fp = <<>> THEN 0 ELSE DigitVal(fp[1])
    IN
    IF /\ Cardinality(dots) <= 1
       /\ AllDigits(ip) /\ AllDigits(fp)
       /\ Len(ip) + Len(fp) > 0
        THEN [ok |-> TRUE, val |-> SignOf(s) * (DigitsValue(ip, 0) * 10 + f1)]
        ELSE [ok |-> FALSE, val |-> 0]

(***************************************************************************)
(* Exceptions in flight.                                                   *)
(***************************************************************************)
NoExc == [type |-> "None", msg |-> "", cap_mb |-> 0]

\* MemoryError(f"Reached demo cap of {max_bytes / (1024 * 1024):.1f} MB")
CapError(mb) == [type |-> "MemoryError", msg |-> "Reached demo cap", cap_mb |-> mb]

\* MemoryError raised by bytearray() itself when the process is out of memory.
AllocError == [type |-> "MemoryError", msg |-> "out of memory", cap_mb |-> 0]

ValueError(m) == [type |-> "ValueError", msg |-> m, cap_mb |-> 0]

KeyboardInterrupt == [type |-> "KeyboardInterrupt", msg |-> "", cap_mb |-> 0]

SystemExit(code) == [type |-> "SystemExit", msg |-> "", cap_mb |-> code]

ShutdownError(who) == [type |-> "Exception", msg |-> who, cap_mb |-> 0]

\* Classes deriving from Exception (KeyboardInterrupt and SystemExit do not).
IsException(e) == e.type \in {"MemoryError", "ValueError", "Exception"}

\* Status of the interpreter when e leaves main uncaught.
ExitStatus(e) ==
    CASE e.type = "None" -> 0
      [] e.type = "SystemExit" -> e.cap_mb
      [] e.type = "KeyboardInterrupt" -> 130
      [] OTHER -> 1

(***************************************************************************)
(* State.                                                                  *)
(***************************************************************************)
VARIABLES
    env_chunk,        \* OOM_CHUNK_MB in the environment
    env_sleep,        \* OOM_SLEEP_SECONDS in the environment
    sinkUp,           \* whether the OTLP collector accepts exports
    pc,               \* position of the main thread
    chunk_mb,         \* main: chunk_mb
    sleep_seconds,    \* main: sleep_seconds, in tenths of a second
    i,                \* ramp: loop counter i
    allocations,      \* ramp: the retained list, one entry (its size) per chunk
    capChecks,        \* ramp: number of evaluations of the cap test of line 132
    logRecords,       \* every record passed to the logging facility, in order
    span,             \* the "oom-demo" span
    exc,              \* the exception propagating on the main thread
    chan,             \* lifecycle of the processors, reader and providers
    logQueue,         \* records buffered in the BatchLogRecordProcessor
    logFlushed,       \* records that left the log buffer (exported or dropped)
    spanQueue,        \* spans buffered in the BatchSpanProcessor
    spanFlushed,      \* spans that left the span buffer
    metricLast,       \* outcome of the last periodic metric export
    shutdownCalls,    \* shutdown() calls made by the finally block, in order
    shutdownEntered,  \* number of times the finally block was entered
    endCause,         \* what ended the ramp loop
    interruptedAt,    \* position at which an interrupt was delivered
    allocAtRaise,     \* length of allocations when the failure was raised
    exitCode,         \* process exit status, -1 while running
    \* test_metrics.py (python-cassandra-monitoring), a separate program:
    args_test,        \* main: args.test
    t_pc,             \* position of the script's main thread
    cluster,          \* CassandraMetricsTester.cluster
    session,          \* CassandraMetricsTester.session
    connectResult,    \* what connect() returned
    stepsStarted,     \* workload steps called, in order
    stepsCompleted,   \* workload steps that returned, in order
    raisedStep,       \* the step that raised, if any
    disconnectCalls,  \* number of calls of disconnect()
    success,          \* main: success / the result of run_all_tests
    t_exit            \* exit status of the script, -1 while running

inputVars == <<env_chunk, env_sleep, sinkUp>>
rampVars == <<chunk_mb, sleep_seconds, i, allocations, capChecks>>
telemetryVars == <<logRecords, span, logQueue, logFlushed, spanQueue, spanFlushed, metricLast>>
shutdownVars == <<chan, shutdownCalls, shutdownEntered>>
outcomeVars == <<exc, endCause, interruptedAt, allocAtRaise, exitCode>>
oomVars == <<inputVars, pc, rampVars, telemetryVars, shutdownVars, outcomeVars>>
testerVars == <<args_test, t_pc, cluster, session, connectResult, stepsStarted,
                stepsCompleted, raisedStep, disconnectCalls, success, t_exit>>
vars == <<oomVars, testerVars>>

Components == {"span_processor", "log_processor", "metric_reader",
               "logger_provider", "meter_provider"}

NoDesc == [prefix |-> "", msg |-> "", cap_mb |-> 0]

NoSpan == [created |-> 0, attrs |-> {}, events |-> 0,
           status |-> [code |-> "UNSET", desc |-> NoDesc],
           errorWrites |-> 0, ended |-> FALSE]

OomInit ==
    /\ env_chunk \in EnvChunkValues
    /\ env_sleep \in EnvSleepValues
    /\ sinkUp \in BOOLEAN
    /\ pc = "configure_tracing"
    /\ chunk_mb = 0
    /\ sleep_seconds = 0
    /\ i = 0
    /\ allocations = <<>>
    /\ capChecks = 0
    /\ logRecords = <<>>
    /\ span = NoSpan
    /\ exc = NoExc
    /\ chan = [c \in Components |-> "none"]
    /\ logQueue = 0
    /\ logFlushed = 0
    /\ spanQueue = 0
    /\ spanFlushed = 0
    /\ metricLast = "none"
    /\ shutdownCalls = <<>>
    /\ shutdownEntered = 0
    /\ endCause = "none"
    /\ interruptedAt = "none"
    /\ allocAtRaise = -1
    /\ exitCode = -1

\* CassandraMetricsTester.__init__ (lines 24-28) and the script's start.
TesterFields ==
    /\ cluster = "None"
    /\ session = "None"
    /\ connectResult = "unset"
    /\ stepsStarted = <<>>
    /\ stepsCompleted = <<>>
    /\ raisedStep = "none"
    /\ disconnectCalls = 0
    /\ success = "unset"
    /\ t_exit = -1

\* The workload script is not running.
TesterIdle == args_test = "all" /\ t_pc = "not_started" /\ TesterFields

\* The OOM demo started alone.
Init == OomInit /\ TesterIdle

(***************************************************************************)
(* Derived quantities of the ramp.                                         *)
(***************************************************************************)
chunk_bytes == chunk_mb * MB

bytes_allocated == i * chunk_bytes

\* Variant of CapReached: strict comparison.
CapReachedStrict(n, cb, mx) == mx # 0 /\ n * cb > mx

\* Variant of CapReached: the cap is treated as unset.
CapReachedNever(n, cb, mx) == FALSE

\* Line 132: max_bytes and (i * chunk_bytes) >= max_bytes
CapReached(n, cb, mx) == mx # 0 /\ n * cb >= mx

\* The loop of lines 121-137 run on its own: the number of chunks appended
\* when the cap failure is raised, 0 if none is raised within MaxIter chunks.
RECURSIVE RampChunksUntilCap(_, _, _)
RampChunksUntilCap(n, cb, mx) ==
    IF n >= MaxIter THEN 0
    ELSE IF CapReached(n + 1, cb, mx) THEN n + 1
    ELSE RampChunksUntilCap(n + 1, cb, mx)

(***************************************************************************)
(* Telemetry submissions (non-blocking, never raise).                      *)
(***************************************************************************)
\* LoggingHandler.emit -> BatchLogRecordProcessor: buffered while the
\* processor is running, ignored after its shutdown.
LogSubmit(q) == IF chan["log_processor"] = "active" THEN q + 1 ELSE q

\* Span.end -> BatchSpanProcessor.on_end.
SpanSubmit(q) == IF chan["span_processor"] = "active" THEN q + 1 ELSE q

InfoRecord(m) == [level |-> "INFO", msg |-> m, chunk_index |-> 0, allocated_mb |-> 0]

\* Variant of ChunkLogRecord: zero-based chunk index.
ChunkLogRecordZeroBased(n, mb) ==
    [level |-> "INFO", msg |-> "Allocated chunk", chunk_index |-> n - 1, allocated_mb |-> n * mb]

\* Lines 126-129.
ChunkLogRecord(n, mb) ==
    [level |-> "INFO", msg |-> "Allocated chunk", chunk_index |-> n, allocated_mb |-> n * mb]

\* Line 141.
ErrorRecord(m) == [level |-> "ERROR", msg |-> m, chunk_index |-> 0, allocated_mb |-> 0]

(***************************************************************************)
(* Bootstrap: main, lines 149-153.                                         *)
(***************************************************************************)
ConfigureTracing ==
    /\ pc = "configure_tracing"
    /\ chan' = [chan EXCEPT !["span_processor"] = "active"]
    /\ pc' = "configure_logging"
    /\ UNCHANGED <<testerVars, inputVars, rampVars, telemetryVars, shutdownCalls, shutdownEntered, outcomeVars>>

ConfigureLogging ==
    /\ pc = "configure_logging"
    /\ chan' = [chan EXCEPT !["log_processor"] = "active", !["logger_provider"] = "active"]
    /\ pc' = "configure_metrics"
    /\ UNCHANGED <<testerVars, inputVars, rampVars, telemetryVars, shutdownCalls, shutdownEntered, outcomeVars>>

ConfigureMetrics ==
    /\ pc = "configure_metrics"
    /\ chan' = [chan EXCEPT !["metric_reader"] = "active", !["meter_provider"] = "active"]
    /\ pc' = "configure_system_metrics"
    /\ UNCHANGED <<testerVars, inputVars, rampVars, telemetryVars, shutdownCalls, shutdownEntered, outcomeVars>>

ConfigureSystemMetrics ==
    /\ pc = "configure_system_metrics"
    /\ pc' = "parse_chunk"
    /\ UNCHANGED <<testerVars, inputVars, rampVars, telemetryVars, shutdownVars, outcomeVars>>

Bootstrapped == \A c \in Components : chan[c] # "none"

(***************************************************************************)
(* Ramp configuration: main, lines 156-157.  A ValueError raised here is   *)
(* outside the try statement of line 159 and leaves main directly.         *)
(***************************************************************************)
ParseChunk ==
    /\ pc = "parse_chunk"
    /\ LET r == ParseInt(Getenv(env_chunk, DEFAULT_CHUNK_MB)) IN
        IF r.ok
            THEN /\ chunk_mb' = r.val
                 /\ pc' = "parse_sleep"
                 /\ exc' = exc
            ELSE /\ chunk_mb' = chunk_mb
                 /\ pc' = "exit"
                 /\ exc' = ValueError("invalid literal for int()")
    /\ UNCHANGED <<testerVars, inputVars, sleep_seconds, i, allocations, capChecks, telemetryVars, shutdownVars,
                   endCause, interruptedAt, allocAtRaise, exitCode>>

ParseSleep ==
    /\ pc = "parse_sleep"
    /\ LET r == ParseFloat(Getenv(env_sleep, DEFAULT_SLEEP_SECONDS)) IN
        IF r.ok
            THEN /\ sleep_seconds' = r.val
                 /\ pc' = "start_span"
                 /\ exc' = exc
            ELSE /\ sleep_seconds' = sleep_seconds
                 /\ pc' = "exit"
                 /\ exc' = ValueError("could not convert string to float")
    /\ UNCHANGED <<testerVars, inputVars, chunk_mb, i, allocations, capChecks, telemetryVars, shutdownVars,
                   endCause, interruptedAt, allocAtRaise, exitCode>>

(***************************************************************************)
(* ramp_memory_and_fail, lines 100-144.                                    *)
(***************************************************************************)
\* Lines 111-116: the span is created and made current, attributes are set.
StartSpan ==
    /\ pc = "start_span"
    /\ span' = [span EXCEPT !.created = @ + 1,
                            !.attrs = {"demo.chunk_mb", "demo.sleep_seconds"}
                                      \cup (IF max_bytes # 0 THEN {"demo.max_bytes"} ELSE {})]
    /\ pc' = "log_start"
    /\ UNCHANGED <<testerVars, inputVars, rampVars, logRecords, logQueue, logFlushed, spanQueue,
                   spanFlushed, metricLast, shutdownVars, outcomeVars>>

\* Line 118.
LogStart ==
    /\ pc = "log_start"
    /\ logRecords' = Append(logRecords, InfoRecord("Starting memory ramp"))
    /\ logQueue' = LogSubmit(logQueue)
    /\ pc' = "alloc"
    /\ UNCHANGED <<testerVars, inputVars, rampVars, span, logFlushed, spanQueue, spanFlushed,
                   metricLast, shutdownVars, outcomeVars>>

\* Variant of Allocate: the new chunk replaces the list instead of joining it.
AllocateReplacing ==
    /\ pc = "alloc"
    /\ i < MaxIter
    /\ IF chunk_bytes < 0
        THEN /\ exc' = ValueError("negative count")
             /\ endCause' = "alloc_value"
             /\ allocAtRaise' = Len(allocations)
             /\ pc' = "span_exit"
             /\ allocations' = allocations
        ELSE \E oom \in BOOLEAN :
             IF oom
                THEN /\ exc' = AllocError
                     /\ endCause' = "alloc_fail"
                     /\ allocAtRaise' = Len(allocations)
                     /\ pc' = "handler_log"
                     /\ allocations' = allocations
                ELSE /\ allocations' = <<chunk_bytes>>
                     /\ pc' = "incr"
                     /\ UNCHANGED <<exc, endCause, allocAtRaise>>
    /\ UNCHANGED <<testerVars, inputVars, chunk_mb, sleep_seconds, i, capChecks, telemetryVars, shutdownVars,
                   interruptedAt, exitCode>>

\* Line 124: bytearray(chunk_bytes) raises ValueError for a negative count and
\* MemoryError when the interpreter cannot obtain the memory; otherwise the
\* chunk is appended.
Allocate ==
    /\ pc = "alloc"
    /\ i < MaxIter
    /\ IF chunk_bytes < 0
        THEN /\ exc' = ValueError("negative count")
             /\ endCause' = "alloc_value"
             /\ allocAtRaise' = Len(allocations)
             /\ pc' = "span_exit"
             /\ allocations' = allocations
        ELSE \E oom \in BOOLEAN :
             IF oom
                THEN /\ exc' = AllocError
                     /\ endCause' = "alloc_fail"
                     /\ allocAtRaise' = Len(allocations)
                     /\ pc' = "handler_log"
                     /\ allocations' = allocations
                ELSE /\ allocations' = Append(allocations, chunk_bytes)
                     /\ pc' = "incr"
                     /\ UNCHANGED <<exc, endCause, allocAtRaise>>
    /\ UNCHANGED <<testerVars, inputVars, chunk_mb, sleep_seconds, i, capChecks, telemetryVars, shutdownVars,
                   interruptedAt, exitCode>>

\* Line 125.
Increment ==
    /\ pc = "incr"
    /\ i' = i + 1
    /\ pc' = "log_chunk"
    /\ UNCHANGED <<testerVars, inputVars, chunk_mb, sleep_seconds, allocations, capChecks, telemetryVars,
                   shutdownVars, outcomeVars>>

\* Variant of LogChunk: an unreachable sink raises into the loop.
LogChunkRaisesWhenSinkDown ==
    /\ pc = "log_chunk"
    /\ logRecords' = Append(logRecords, ChunkLogRecord(i, chunk_mb))
    /\ logQueue' = LogSubmit(logQueue)
    /\ IF sinkUp
        THEN /\ pc' = "check_cap"
             /\ UNCHANGED <<exc, endCause, allocAtRaise>>
        ELSE /\ pc' = "span_exit"
             /\ exc' = ShutdownError("export")
             /\ endCause' = "export_failure"
             /\ allocAtRaise' = Len(allocations)
    /\ UNCHANGED <<testerVars, inputVars, rampVars, span, logFlushed, spanQueue, spanFlushed,
                   metricLast, shutdownVars, interruptedAt, exitCode>>

\* Lines 126-129.
LogChunk ==
    /\ pc = "log_chunk"
    /\ logRecords' = Append(logRecords, ChunkLogRecord(i, chunk_mb))
    /\ logQueue' = LogSubmit(logQueue)
    /\ pc' = "check_cap"
    /\ UNCHANGED <<testerVars, inputVars, rampVars, span, logFlushed, spanQueue, spanFlushed,
                   metricLast, shutdownVars, outcomeVars>>

\* Variant of CheckCap: the test uses the count before this iteration's chunk.
CheckCapStale ==
    /\ pc = "check_cap"
    /\ capChecks' = capChecks + 1
    /\ IF CapReached(i - 1, chunk_bytes, max_bytes)
        THEN /\ exc' = CapError(max_bytes \div MB)
             /\ endCause' = "cap"
             /\ allocAtRaise' = Len(allocations)
             /\ pc' = "handler_log"
        ELSE /\ pc' = "sleep"
             /\ UNCHANGED <<exc, endCause, allocAtRaise>>
    /\ UNCHANGED <<testerVars, inputVars, chunk_mb, sleep_seconds, i, allocations, telemetryVars,
                   shutdownVars, interruptedAt, exitCode>>

\* Lines 132-135.
CheckCap ==
    /\ pc = "check_cap"
    /\ capChecks' = capChecks + 1
    /\ IF CapReached(i, chunk_bytes, max_bytes)
        THEN /\ exc' = CapError(max_bytes \div MB)
             /\ endCause' = "cap"
             /\ allocAtRaise' = Len(allocations)
             /\ pc' = "handler_log"
        ELSE /\ pc' = "sleep"
             /\ UNCHANGED <<exc, endCause, allocAtRaise>>
    /\ UNCHANGED <<testerVars, inputVars, chunk_mb, sleep_seconds, i, allocations, telemetryVars,
                   shutdownVars, interruptedAt, exitCode>>

\* Line 137: time.sleep raises ValueError for a negative length.
Sleep ==
    /\ pc = "sleep"
    /\ IF sleep_seconds < 0
        THEN /\ exc' = ValueError("sleep length must be non-negative")
             /\ endCause' = "sleep_value"
             /\ allocAtRaise' = Len(allocations)
             /\ pc' = "span_exit"
        ELSE /\ pc' = "alloc"
             /\ UNCHANGED <<exc, endCause, allocAtRaise>>
    /\ UNCHANGED <<testerVars, inputVars, rampVars, telemetryVars, shutdownVars, interruptedAt, exitCode>>

LoopPcs == {"alloc", "incr", "log_chunk", "check_cap", "sleep"}

\* An external interrupt (SIGINT) delivered while the loop of lines 122-137
\* runs: KeyboardInterrupt is raised at the current statement.  It is not a
\* MemoryError, so the handler of line 139 does not run.
Interrupt ==
    /\ pc \in LoopPcs
    /\ exc' = KeyboardInterrupt
    /\ endCause' = "interrupt"
    /\ interruptedAt' = pc
    /\ allocAtRaise' = Len(allocations)
    /\ pc' = "span_exit"
    /\ UNCHANGED <<testerVars, inputVars, rampVars, telemetryVars, shutdownVars, exitCode>>

\* Line 141: logger.exception.
HandlerLog ==
    /\ pc = "handler_log"
    /\ logRecords' = Append(logRecords, ErrorRecord("MemoryError triggered; demo complete"))
    /\ logQueue' = LogSubmit(logQueue)
    /\ pc' = "handler_record"
    /\ UNCHANGED <<testerVars, inputVars, rampVars, span, logFlushed, spanQueue, spanFlushed,
                   metricLast, shutdownVars, outcomeVars>>

\* Line 142: span.record_exception(exc).
HandlerRecord ==
    /\ pc = "handler_record"
    /\ span' = [span EXCEPT !.events = @ + 1]
    /\ pc' = "handler_status"
    /\ UNCHANGED <<testerVars, inputVars, rampVars, logRecords, logQueue, logFlushed, spanQueue,
                   spanFlushed, metricLast, shutdownVars, outcomeVars>>

\* Line 143: span.set_status(Status(StatusCode.ERROR, str(exc))).
HandlerStatus ==
    /\ pc = "handler_status"
    /\ span' = [span EXCEPT
                  !.status = [code |-> "ERROR",
                              desc |-> [prefix |-> "", msg |-> exc.msg, cap_mb |-> exc.cap_mb]],
                  !.errorWrites = @ + 1]
    /\ pc' = "handler_raise"
    /\ UNCHANGED <<testerVars, inputVars, rampVars, logRecords, logQueue, logFlushed, spanQueue,
                   spanFlushed, metricLast, shutdownVars, outcomeVars>>

\* Variant of HandlerRaise: the handler ends without re-raising.
HandlerRaiseSuppressed ==
    /\ pc = "handler_raise"
    /\ exc' = NoExc
    /\ pc' = "span_exit"
    /\ UNCHANGED <<testerVars, inputVars, rampVars, telemetryVars, shutdownVars,
                   endCause, interruptedAt, allocAtRaise, exitCode>>

\* Line 144: bare raise, the same exception leaves the with block.
HandlerRaise ==
    /\ pc = "handler_raise"
    /\ pc' = "span_exit"
    /\ UNCHANGED <<testerVars, inputVars, rampVars, telemetryVars, shutdownVars, outcomeVars>>

\* Variant of SpanExit: the span is left open when the block is left.
SpanExitLeavesSpanOpen ==
    /\ pc = "span_exit"
    /\ pc' = "main_except"
    /\ UNCHANGED <<testerVars, inputVars, rampVars, telemetryVars, shutdownVars, outcomeVars>>

\* Line 111, leaving the with block of start_as_current_span with an
\* exception: an Exception is recorded on the span and sets its status to
\* ERROR ("<type>: <message>"); the span is ended and handed to the span
\* processor; the exception continues to the caller.
SpanExit ==
    /\ pc = "span_exit"
    /\ span' = IF IsException(exc)
                 THEN [span EXCEPT
                         !.events = @ + 1,
                         !.status = [code |-> "ERROR",
                                     desc |-> [prefix |-> exc.type, msg |-> exc.msg,
                                               cap_mb |-> exc.cap_mb]],
                         !.errorWrites = @ + 1,
                         !.ended = TRUE]
                 ELSE [span EXCEPT !.ended = TRUE]
    /\ spanQueue' = SpanSubmit(spanQueue)
    /\ pc' = "main_except"
    /\ UNCHANGED <<testerVars, inputVars, rampVars, logRecords, logQueue, logFlushed, spanFlushed,
                   metricLast, shutdownVars, outcomeVars>>

(***************************************************************************)
(* main, lines 159-170.                                                    *)
(***************************************************************************)
\* Variant of MainExcept: the MemoryError is swallowed without sys.exit(1).
MainExceptSwallow ==
    /\ pc = "main_except"
    /\ exc' = IF exc.type = "MemoryError" THEN NoExc ELSE exc
    /\ shutdownEntered' = shutdownEntered + 1
    /\ pc' = "finally"
    /\ UNCHANGED <<testerVars, inputVars, rampVars, telemetryVars, chan, shutdownCalls,
                   endCause, interruptedAt, allocAtRaise, exitCode>>

\* Lines 161-164: a MemoryError is replaced by sys.exit(1), i.e. SystemExit(1)
\* is raised in the handler; any other exception keeps propagating.  Either
\* way the finally block is entered next.
MainExcept ==
    /\ pc = "main_except"
    /\ exc' = IF exc.type = "MemoryError" THEN SystemExit(1) ELSE exc
    /\ shutdownEntered' = shutdownEntered + 1
    /\ pc' = "finally"
    /\ UNCHANGED <<testerVars, inputVars, rampVars, telemetryVars, chan, shutdownCalls,
                   endCause, interruptedAt, allocAtRaise, exitCode>>

\* Variant of ShutdownOrder: the log channel is closed before the trace channel.
ShutdownOrderLogFirst ==
    <<"log_processor", "span_processor", "metric_reader", "logger_provider", "meter_provider">>

\* Lines 166-170, in program order.
ShutdownOrder ==
    <<"span_processor", "log_processor", "metric_reader", "logger_provider", "meter_provider">>

\* The processor a provider shuts down in turn.
Owned(c) ==
    CASE c = "logger_provider" -> "log_processor"
      [] c = "meter_provider" -> "metric_reader"
      [] OTHER -> c

\* Lifecycle after c.shutdown() returned: c is shut down, and so is the
\* processor or reader it owns unless that one already left the active state.
ChanAfterShutdown(c) ==
    [x \in Components |->
        IF x = c THEN "shutdown"
        ELSE IF x = Owned(c) /\ chan[x] = "active" THEN "shutdown"
        ELSE chan[x]]

\* Variant of Drains: shutdown() closes the channel without flushing it.
DrainsNothing(c, p) == FALSE

\* Whether c.shutdown() drains the buffer of processor p.
Drains(c, p) == Owned(c) = p /\ chan[p] = "active"

\* Variant of MayRaise: a repeated shutdown() may raise as well.
MayRaiseAlways(c) == TRUE

\* Whether c.shutdown() can raise: only a call that does the flushing and
\* closing can fail.  A provider's shutdown() merely forwards to the processor
\* or reader it owns, and a shutdown() received by one that is no longer
\* active is ignored with a warning.
MayRaise(c) == chan[Owned(c)] = "active"

\* One statement of the finally block.  A shutdown() call either returns,
\* having flushed what its channel buffered, or (see MayRaise) raises; an
\* exception raised here replaces the one in flight and the rest of the block
\* is skipped.
ShutdownStep ==
    /\ pc = "finally"
    /\ Len(shutdownCalls) < Len(ShutdownOrder)
    /\ LET c == ShutdownOrder[Len(shutdownCalls) + 1] IN
       /\ shutdownCalls' = Append(shutdownCalls, c)
       /\ \E raises \in (IF MayRaise(c) THEN BOOLEAN ELSE {FALSE}) :
            IF raises
                THEN /\ chan' = [chan EXCEPT ![c] = "failed"]
                     /\ exc' = ShutdownError(c)
                     /\ pc' = "exit"
                     /\ UNCHANGED <<logQueue, logFlushed, spanQueue, spanFlushed, metricLast>>
                ELSE /\ chan' = ChanAfterShutdown(c)
                     /\ spanFlushed' = IF Drains(c, "span_processor")
                                         THEN spanFlushed + spanQueue ELSE spanFlushed
                     /\ spanQueue' = IF Drains(c, "span_processor") THEN 0 ELSE spanQueue
                     /\ logFlushed' = IF Drains(c, "log_processor")
                                        THEN logFlushed + logQueue ELSE logFlushed
                     /\ logQueue' = IF Drains(c, "log_processor") THEN 0 ELSE logQueue
                     /\ metricLast' = IF Drains(c, "metric_reader")
                                        THEN (IF sinkUp THEN "exported" ELSE "dropped")
                                        ELSE metricLast
                     /\ exc' = exc
                     /\ pc' = "finally"
    /\ UNCHANGED <<testerVars, inputVars, rampVars, logRecords, span, shutdownEntered,
                   endCause, interruptedAt, allocAtRaise, exitCode>>

\* End of the finally block: the exception in flight continues.
FinallyDone ==
    /\ pc = "finally"
    /\ Len(shutdownCalls) = Len(ShutdownOrder)
    /\ pc' = "exit"
    /\ UNCHANGED <<testerVars, inputVars, rampVars, telemetryVars, shutdownVars, outcomeVars>>

\* The interpreter exits with the status of whatever left main.
Exit ==
    /\ pc = "exit"
    /\ exitCode' = ExitStatus(exc)
    /\ pc' = "exited"
    /\ UNCHANGED <<testerVars, inputVars, rampVars, telemetryVars, shutdownVars,
                   exc, endCause, interruptedAt, allocAtRaise>>

(***************************************************************************)
(* Background activity of the export channels (lines 41, 50, 70-73, 81-83).*)
(* An export that fails is dropped inside the worker.                      *)
(***************************************************************************)
Running == pc # "exited"

\* BatchLogRecordProcessor worker: exports the buffered batch.
LogWorkerExport ==
    /\ Running
    /\ chan["log_processor"] = "active"
    /\ logQueue > 0
    /\ logFlushed' = logFlushed + logQueue
    /\ logQueue' = 0
    /\ UNCHANGED <<testerVars, inputVars, pc, rampVars, logRecords, span, spanQueue, spanFlushed,
                   metricLast, shutdownVars, outcomeVars>>

\* BatchSpanProcessor worker.
SpanWorkerExport ==
    /\ Running
    /\ chan["span_processor"] = "active"
    /\ spanQueue > 0
    /\ spanFlushed' = spanFlushed + spanQueue
    /\ spanQueue' = 0
    /\ UNCHANGED <<testerVars, inputVars, pc, rampVars, logRecords, span, logQueue, logFlushed,
                   metricLast, shutdownVars, outcomeVars>>

\* Variant of MetricCycle: the callback keeps what it measured in the ramp's list.
MetricCycleRetaining ==
    /\ Running
    /\ chan["metric_reader"] = "active"
    /\ metricLast' = IF sinkUp THEN "exported" ELSE "dropped"
    /\ allocations' = IF pc = "sleep" THEN Append(allocations, 0) ELSE allocations
    /\ UNCHANGED <<testerVars, inputVars, pc, chunk_mb, sleep_seconds, i, capChecks, logRecords, span,
                   logQueue, logFlushed, spanQueue, spanFlushed, shutdownVars, outcomeVars>>

\* PeriodicExportingMetricReader cycle: calls _rss_callback and exports.
MetricCycle ==
    /\ Running
    /\ chan["metric_reader"] = "active"
    /\ metricLast' = IF sinkUp THEN "exported" ELSE "dropped"
    /\ UNCHANGED <<testerVars, inputVars, pc, rampVars, logRecords, span, logQueue, logFlushed,
                   spanQueue, spanFlushed, shutdownVars, outcomeVars>>

(***************************************************************************)
(* Specification.                                                          *)
(***************************************************************************)
Next ==
    \/ ConfigureTracing
    \/ ConfigureLogging
    \/ ConfigureMetrics
    \/ ConfigureSystemMetrics
    \/ ParseChunk
    \/ ParseSleep
    \/ StartSpan
    \/ LogStart
    \/ Allocate
    \/ Increment
    \/ LogChunk
    \/ CheckCap
    \/ Sleep
    \/ Interrupt
    \/ HandlerLog
    \/ HandlerRecord
    \/ HandlerStatus
    \/ HandlerRaise
    \/ SpanExit
    \/ MainExcept
    \/ ShutdownStep
    \/ FinallyDone
    \/ Exit
    \/ LogWorkerExport
    \/ SpanWorkerExport
    \/ MetricCycle

Spec == Init /\ [][Next]_vars

\* The statements of the main thread; an interrupt is not one of them.
MainStep ==
    \/ ConfigureTracing
    \/ ConfigureLogging
    \/ ConfigureMetrics
    \/ ConfigureSystemMetrics
    \/ ParseChunk
    \/ ParseSleep
    \/ StartSpan
    \/ LogStart
    \/ Allocate
    \/ Increment
    \/ LogChunk
    \/ CheckCap
    \/ Sleep
    \/ HandlerLog
    \/ HandlerRecord
    \/ HandlerStatus
    \/ HandlerRaise
    \/ SpanExit
    \/ MainExcept
    \/ ShutdownStep
    \/ FinallyDone
    \/ Exit

\* Runs in which no interrupt is delivered.
NextUninterrupted ==
    \/ ConfigureTracing
    \/ ConfigureLogging
    \/ ConfigureMetrics
    \/ ConfigureSystemMetrics
    \/ ParseChunk
    \/ ParseSleep
    \/ StartSpan
    \/ LogStart
    \/ Allocate
    \/ Increment
    \/ LogChunk
    \/ CheckCap
    \/ Sleep
    \/ HandlerLog
    \/ HandlerRecord
    \/ HandlerStatus
    \/ HandlerRaise
    \/ SpanExit
    \/ MainExcept
    \/ ShutdownStep
    \/ FinallyDone
    \/ Exit
    \/ LogWorkerExport
    \/ SpanWorkerExport
    \/ MetricCycle

\* The main thread is never starved: sleeps return and shutdown() calls
\* return or raise within their timeout.
FairSpec == Init /\ [][NextUninterrupted]_vars /\ WF_vars(MainStep)

(***************************************************************************)
(* python-cassandra-monitoring/test_metrics.py: connect, the workload      *)
(* steps, disconnect, and the exit status (lines 30-49 and 236-333).       *)
(***************************************************************************)
\* Choices of --test (line 298).
Modes == {"all", "requests", "storage", "compaction", "jvm"}

\* run_all_tests, lines 248-262.
AllPlan == <<"setup", "requests", "storage", "compaction", "jvm">>

\* main's single-test branch, lines 313-322.
SinglePlan(m) == <<"setup", m>>

\* The steps the chosen mode calls, in program order.
Plan(m) == IF m = "all" THEN AllPlan ELSE SinglePlan(m)

\* The OOM demo does not run next to the script.
OomIdle == OomInit /\ env_chunk = EnvUnset /\ env_sleep = EnvUnset /\ sinkUp

\* The script starts with some --test.
TesterInit == OomIdle /\ args_test \in Modes /\ t_pc = "connect" /\ TesterFields

\* connect(), lines 30-43: Cluster(...) may raise, cluster.connect() may
\* raise after self.cluster was assigned; both are caught and give False.
Connect ==
    /\ t_pc = "connect"
    /\ \E outcome \in {"ok", "cluster_raises", "connect_raises"} :
        /\ cluster' = IF outcome = "cluster_raises" THEN "None" ELSE "open"
        /\ session' = IF outcome = "ok" THEN "open" ELSE "None"
        /\ connectResult' = IF outcome = "ok" THEN "true" ELSE "false"
    /\ t_pc' = "connected"
    /\ UNCHANGED <<oomVars, args_test, stepsStarted, stepsCompleted, raisedStep,
                   disconnectCalls, success, t_exit>>

\* Lines 243-245 (run_all_tests returns False) and 308-310 (sys.exit(1)).
ConnectFailed ==
    /\ t_pc = "connected"
    /\ connectResult = "false"
    /\ success' = IF args_test = "all" THEN "false" ELSE success
    /\ t_exit' = IF args_test = "all" THEN t_exit ELSE 1
    /\ t_pc' = IF args_test = "all" THEN "sys_exit" ELSE "exited"
    /\ UNCHANGED <<oomVars, args_test, cluster, session, connectResult, stepsStarted,
                   stepsCompleted, raisedStep, disconnectCalls>>

\* Entering the try statement of line 247 or 312.
EnterTry ==
    /\ t_pc = "connected"
    /\ connectResult = "true"
    /\ t_pc' = "steps"
    /\ UNCHANGED <<oomVars, args_test, cluster, session, connectResult, stepsStarted,
                   stepsCompleted, raisedStep, disconnectCalls, success, t_exit>>

\* The next call of the try body: the step returns or raises an Exception.
RunStep ==
    /\ t_pc = "steps"
    /\ Len(stepsCompleted) < Len(Plan(args_test))
    /\ LET step == Plan(args_test)[Len(stepsCompleted) + 1] IN
       /\ stepsStarted' = Append(stepsStarted, step)
       /\ \E raises \in BOOLEAN :
            IF raises
                THEN /\ raisedStep' = step
                     /\ t_pc' = "except"
                     /\ stepsCompleted' = stepsCompleted
                ELSE /\ stepsCompleted' = Append(stepsCompleted, step)
                     /\ t_pc' = "steps"
                     /\ raisedStep' = raisedStep
    /\ UNCHANGED <<oomVars, args_test, cluster, session, connectResult,
                   disconnectCalls, success, t_exit>>

\* Line 280 (return True) and line 324 (success = True).
StepsDone ==
    /\ t_pc = "steps"
    /\ Len(stepsCompleted) = Len(Plan(args_test))
    /\ success' = "true"
    /\ t_pc' = "finally"
    /\ UNCHANGED <<oomVars, args_test, cluster, session, connectResult, stepsStarted,
                   stepsCompleted, raisedStep, disconnectCalls, t_exit>>

\* Variant of TesterExcept: the handler reports success.
TesterExceptReportsSuccess ==
    /\ t_pc = "except"
    /\ success' = "true"
    /\ t_pc' = "finally"
    /\ UNCHANGED <<oomVars, args_test, cluster, session, connectResult, stepsStarted,
                   stepsCompleted, raisedStep, disconnectCalls, t_exit>>

\* Lines 282-286 (return False) and 325-329 (success = False).
TesterExcept ==
    /\ t_pc = "except"
    /\ success' = "false"
    /\ t_pc' = "finally"
    /\ UNCHANGED <<oomVars, args_test, cluster, session, connectResult, stepsStarted,
                   stepsCompleted, raisedStep, disconnectCalls, t_exit>>

\* Lines 287-288 and 330-331: disconnect() (lines 45-49) in the finally block.
Disconnect ==
    /\ t_pc = "finally"
    /\ disconnectCalls' = disconnectCalls + 1
    /\ cluster' = IF cluster # "None" THEN "shutdown" ELSE cluster
    /\ t_pc' = "sys_exit"
    /\ UNCHANGED <<oomVars, args_test, session, connectResult, stepsStarted,
                   stepsCompleted, raisedStep, success, t_exit>>

\* Line 333: sys.exit(0 if success else 1).
TesterExit ==
    /\ t_pc = "sys_exit"
    /\ t_exit' = IF success = "true" THEN 0 ELSE 1
    /\ t_pc' = "exited"
    /\ UNCHANGED <<oomVars, args_test, cluster, session, connectResult, stepsStarted,
                   stepsCompleted, raisedStep, disconnectCalls, success>>

TesterNext ==
    \/ Connect
    \/ ConnectFailed
    \/ EnterTry
    \/ RunStep
    \/ StepsDone
    \/ TesterExcept
    \/ Disconnect
    \/ TesterExit

TesterSpec == TesterInit /\ [][TesterNext]_vars

(***************************************************************************)
(* Properties.                                                             *)
(***************************************************************************)
CeilDiv(a, b) == (a + b - 1) \div b

Channels == {"span_processor", "log_processor", "metric_reader"}

Providers == {"logger_provider", "meter_provider"}

Called == { shutdownCalls[k] : k \in 1..Len(shutdownCalls) }

PositionOf(c) == CHOOSE k \in 1..Len(shutdownCalls) : shutdownCalls[k] = c

IsChunkLog(r) == r.msg = "Allocated chunk"

ChunkLogs == SelectSeq(logRecords, IsChunkLog)

IsErrorLog(r) == r.level = "ERROR"

ErrorLogs == SelectSeq(logRecords, IsErrorLog)

\* C1: when the cap failure is raised with a positive chunk size, exactly
\* ceil(cap_bytes / chunk_size_bytes) chunks have been allocated and
\* bytes_allocated lies in [cap_bytes, cap_bytes + chunk_size_bytes), hitting
\* cap_bytes exactly when the chunk size divides it; the loop never goes on
\* to sleep with that many chunks; and the loop run on chunk = 10 MB,
\* cap = 35 MB raises on the 4th chunk.
C1_FailsAtCeilChunks ==
    /\ endCause = "cap" /\ chunk_bytes > 0 =>
         /\ i = CeilDiv(max_bytes, chunk_bytes)
         /\ Len(allocations) = i
         /\ max_bytes <= bytes_allocated
         /\ bytes_allocated < max_bytes + chunk_bytes
         /\ (max_bytes % chunk_bytes = 0 => bytes_allocated = max_bytes)
    /\ pc = "sleep" /\ chunk_bytes > 0 => i < CeilDiv(max_bytes, chunk_bytes)
    /\ RampChunksUntilCap(0, 10 * MB, 35 * MB) = 4

\* The default configuration fails on the chunk that reaches the cap exactly.
C1_Witness == endCause = "cap" /\ chunk_mb = 10 /\ i = 40 /\ bytes_allocated = max_bytes

\* C2: every exit of main that follows the bootstrap has entered the
\* shutdown sequence exactly once.
C2_ShutdownOnEveryExit == pc = "exited" /\ Bootstrapped => shutdownEntered = 1

\* C3: the shutdown calls are made in the order trace channel, log channel,
\* metric channel, each at most once, and a provider is released only after
\* all three channels were shut down.
C3_ShutdownOrder ==
    /\ \A j, k \in 1..Len(shutdownCalls) : j # k => shutdownCalls[j] # shutdownCalls[k]
    /\ "log_processor" \in Called =>
         "span_processor" \in Called /\ PositionOf("span_processor") < PositionOf("log_processor")
    /\ "metric_reader" \in Called =>
         "log_processor" \in Called /\ PositionOf("log_processor") < PositionOf("metric_reader")
    /\ \A p \in Providers : p \in Called =>
         \A c \in Channels : c \in Called /\ PositionOf(c) < PositionOf(p)

\* A complete shutdown sequence has run.
C3_Witness == pc = "exited" /\ Len(shutdownCalls) = 5 /\ Providers \subseteq Called

\* C4: once the shutdown sequence has been entered, each of the three
\* channels has had its shutdown invoked by the time the process exits,
\* whichever other shutdown calls raised.
C4_CollectAndContinue ==
    pc = "exited" /\ shutdownEntered = 1 => Channels \subseteq Called

\* C5: with a chunk size <= 0 no chunk is allocated, no log record is
\* emitted and no span is created, and the run ends with a configuration
\* error.
C5_NonPositiveChunkRejected ==
    LET r == ParseInt(Getenv(env_chunk, DEFAULT_CHUNK_MB)) IN
    r.ok /\ r.val <= 0 =>
        /\ allocations = <<>>
        /\ logRecords = <<>>
        /\ span.created = 0

RaisedFailure == IF endCause = "cap" THEN CapError(max_bytes \div MB) ELSE AllocError

\* C7: when a MemoryError of the ramp leaves the handler and reaches the
\* caller, the span carries an exception event and ERROR status with the
\* failure's message, exactly one error-severity log record was emitted, the
\* exception in flight is the failure that was raised, and the allocation
\* list is as long as when the failure was raised; no state ever has more
\* than one error record or a chunk allocated after the raise.
C7_FailureSurfacedThenReraised ==
    /\ endCause \in {"cap", "alloc_fail"} /\ pc \in {"span_exit", "main_except"} =>
         /\ span.events >= 1
         /\ span.status.code = "ERROR"
         /\ span.status.desc.msg = RaisedFailure.msg
         /\ span.status.desc.cap_mb = RaisedFailure.cap_mb
         /\ Len(ErrorLogs) = 1
         /\ exc = RaisedFailure
    /\ Len(ErrorLogs) <= 1
    /\ allocAtRaise # -1 => Len(allocations) = allocAtRaise

\* The cap failure has reached main.
C7_Witness == endCause = "cap" /\ pc = "main_except" /\ exc = CapError(400)

Failures == {"cap", "alloc_fail", "alloc_value", "sleep_value"}

\* C8: counting every status write, the span's status is set to ERROR exactly
\* once on a failing run, with a non-empty message, and never on a run
\* without failure.
C8_ErrorStatusOnce ==
    /\ span.errorWrites <= 1
    /\ span.ended =>
         IF endCause \in Failures
            THEN span.errorWrites = 1 /\ span.status.desc.msg # ""
            ELSE span.errorWrites = 0

\* C9: when the ramp has ended by cap failure, by a failed allocation or by
\* an interrupt at the sleep, there are as many "Allocated chunk" records as
\* chunks in the allocation list, and the k-th carries chunk_index k.
C9_ChunkLogsMatchAllocations ==
    (endCause \in {"cap", "alloc_fail"} \/ (endCause = "interrupt" /\ interruptedAt = "sleep")) =>
        /\ Len(ChunkLogs) = Len(allocations)
        /\ \A k \in 1..Len(ChunkLogs) : ChunkLogs[k].chunk_index = k

\* An interrupt at the sleep after several chunks.
C9_Witness ==
    endCause = "interrupt" /\ interruptedAt = "sleep" /\ Len(allocations) >= 3
    /\ Len(ChunkLogs) >= 3

\* How and where the ramp ends when nothing outside the configuration
\* intervenes (no interrupt, no allocation failure): computed from chunk size,
\* sleep interval and cap alone.
ExpectedEnd(cb, sl, mx) ==
    IF cb < 0 THEN [cause |-> "alloc_value", chunks |-> 0]
    ELSE IF mx # 0 /\ cb >= mx THEN [cause |-> "cap", chunks |-> 1]
    ELSE IF sl < 0 THEN [cause |-> "sleep_value", chunks |-> 1]
    ELSE IF cb > 0 THEN [cause |-> "cap", chunks |-> CeilDiv(mx, cb)]
    ELSE [cause |-> "none", chunks |-> MaxIter]

\* C10: the ramp's state does not depend on sink health.  For either value
\* of sinkUp the allocation list holds chunks of the configured size, the
\* counter trails it by at most the chunk being counted, and unless an
\* interrupt or an allocation failure ended the loop, the loop ends the way
\* and at the chunk count that the configuration alone determines; an export
\* failure is never what ends it.
C10_RampIndependentOfSink ==
    LET e == ExpectedEnd(chunk_bytes, sleep_seconds, max_bytes) IN
    /\ \A k \in 1..Len(allocations) : allocations[k] = chunk_bytes
    /\ Len(allocations) = IF pc = "incr" \/ interruptedAt = "incr" THEN i + 1 ELSE i
    /\ pc \in LoopPcs /\ endCause = "none" => i <= e.chunks
    /\ endCause \notin {"none", "interrupt", "alloc_fail"} =>
         /\ endCause = e.cause
         /\ i = e.chunks
         /\ bytes_allocated = e.chunks * chunk_bytes

\* With the sink unreachable and exports already dropped, the ramp reached
\* the cap and the process exited.
C10_Witness ==
    ~sinkUp /\ endCause = "cap" /\ chunk_mb = 150 /\ i = 3 /\ logFlushed > 0
    /\ metricLast = "dropped" /\ pc = "exited"

ParseErrors ==
    { ValueError("invalid literal for int()"), ValueError("could not convert string to float") }

\* C12: when a malformed environment value raises its configuration error,
\* no chunk has been allocated and no export channel has been constructed
\* or installed.
C12_ConfigErrorBeforePipelines ==
    exc \in ParseErrors =>
        /\ allocations = <<>>
        /\ \A c \in Components : chan[c] = "none"

\* Steps of [Next]_vars that move the main thread to position q.
Enters(q) == pc' = q /\ pc # q

\* Where the loop stands, or stood when an interrupt took it out.
LoopPosition == IF pc \in LoopPcs THEN pc ELSE interruptedAt

\* C13: the loop's steps follow the order allocate, increment, log, cap
\* check, sleep: each position is entered only from its predecessor, by the
\* step that does the predecessor's work; the cap test has been evaluated
\* once per completed iteration; the cap failure is raised by the cap check
\* itself, in the iteration that reached the cap; and the loop is never at
\* the sleep or at the allocation with bytes_allocated >= cap_bytes.
C13_IterationOrder ==
    /\ [](pc \in {"alloc", "sleep"} => ~(max_bytes # 0 /\ bytes_allocated >= max_bytes))
    /\ [](capChecks = IF LoopPosition \in {"log_chunk", "check_cap"} THEN i - 1 ELSE i)
    /\ [][ /\ Enters("incr") => pc = "alloc" /\ Len(allocations') = Len(allocations) + 1
           /\ Enters("log_chunk") => pc = "incr" /\ i' = i + 1
           /\ Enters("check_cap") => pc = "log_chunk" /\ Len(ChunkLogs') = Len(ChunkLogs) + 1
           /\ Enters("sleep") => pc = "check_cap" /\ capChecks' = capChecks + 1
           /\ Enters("alloc") => pc \in {"log_start", "sleep"}
           /\ (endCause' = "cap" /\ endCause # "cap") =>
                  pc = "check_cap" /\ capChecks' = i /\ bytes_allocated >= max_bytes
         ]_vars

\* The fourth iteration of a 100 MB ramp has just raised the cap failure.
C13_Witness ==
    endCause = "cap" /\ pc = "handler_log" /\ chunk_mb = 100 /\ i = 4 /\ capChecks = 4

RECURSIVE SumSeq(_)
SumSeq(q) == IF q = <<>> THEN 0 ELSE Head(q) + SumSeq(Tail(q))

IsPrefix(a, b) == Len(a) <= Len(b) /\ SubSeq(b, 1, Len(a)) = a

BackgroundStep == pc' = pc /\ shutdownCalls' = shutdownCalls

\* The channels whose buffers or export state a step changes.
TouchedChannels ==
    (IF <<logQueue, logFlushed>>' # <<logQueue, logFlushed>> THEN {"log_processor"} ELSE {})
    \cup (IF <<spanQueue, spanFlushed>>' # <<spanQueue, spanFlushed>> THEN {"span_processor"} ELSE {})
    \cup (IF metricLast' # metricLast THEN {"metric_reader"} ELSE {})

\* C15: a step of the channels' background activity (batch workers, metric
\* cycle with its RSS callback) leaves the allocation list, the counters, the
\* ramp's configuration and control state, the emitted records, the span and
\* the channels' lifecycle unchanged, and touches the buffers of one channel
\* only; the allocation list and the counters change only in the loop's own
\* steps (append at the allocation, i at the increment, the cap test at the
\* check).
C15_BackgroundLeavesRampAlone ==
    [][ /\ BackgroundStep =>
              /\ UNCHANGED <<rampVars, exc, endCause, interruptedAt, allocAtRaise, exitCode>>
              /\ UNCHANGED <<logRecords, span, chan, shutdownEntered>>
              /\ Cardinality(TouchedChannels) <= 1
        /\ allocations' # allocations => pc = "alloc" /\ pc' = "incr"
        /\ i' # i => pc = "incr" /\ pc' = "log_chunk"
        /\ capChecks' # capChecks => pc = "check_cap"
        /\ <<chunk_mb, sleep_seconds>>' # <<chunk_mb, sleep_seconds>> =>
              pc \in {"parse_chunk", "parse_sleep"}
      ]_vars

\* The loop is asleep after two chunks while the log worker has exported a
\* batch, a newer record is buffered and a metric cycle has run.
C15_Witness ==
    pc = "sleep" /\ i = 2 /\ Len(allocations) = 2 /\ logFlushed >= 1 /\ logQueue >= 1
    /\ metricLast # "none"

\* The finally block of main has been entered.
ShutdownStarted == shutdownEntered >= 1

\* Once the shutdown has started the ramp does nothing more: no allocation,
\* no counter change, no record emitted, nothing written to the span.
RampQuietAfterShutdown ==
    [][ShutdownStarted => UNCHANGED <<rampVars, logRecords, span>>]_vars

\* What the ramp emitted has been handed to its channel: the span has ended
\* and sits in the span channel, every log record sits in the log channel.
EmittedIsSubmitted ==
    /\ span.created = 1 /\ span.ended
    /\ spanQueue + spanFlushed = 1
    /\ logQueue + logFlushed = Len(logRecords)

\* The last record emitted is the handler's error record.
FinalErrorRecordEmitted ==
    /\ Len(ErrorLogs) = 1
    /\ logRecords[Len(logRecords)] = ErrorRecord("MemoryError triggered; demo complete")

\* C16 as stated: once the shutdown sequence has started the ramp allocates
\* and emits nothing more, and before the first shutdown call the span has
\* ended and the final error log record has been submitted, on the failure
\* path and on the interrupt path alike.
C16_AsStated ==
    /\ RampQuietAfterShutdown
    /\ [](ShutdownStarted /\ endCause \in {"cap", "alloc_fail", "interrupt"} =>
            EmittedIsSubmitted /\ FinalErrorRecordEmitted)

\* C16 (amended): once the shutdown sequence has started the ramp allocates
\* and emits nothing more; before the first shutdown call the span has ended
\* and everything emitted has been submitted to its channel; on the failure
\* path that includes the final error record, while on the interrupt path no
\* error record exists at all.
C16_QuietAndSubmittedBeforeShutdown ==
    /\ RampQuietAfterShutdown
    /\ [](ShutdownStarted => EmittedIsSubmitted)
    /\ [](ShutdownStarted /\ endCause \in {"cap", "alloc_fail"} => FinalErrorRecordEmitted)
    /\ [](ShutdownStarted /\ endCause = "interrupt" => Len(ErrorLogs) = 0)

\* The finally block was entered after an interrupt at the sleep and has not
\* made its first shutdown call yet.
C16_Witness ==
    ShutdownStarted /\ shutdownCalls = <<>> /\ endCause = "interrupt"
    /\ interruptedAt = "sleep" /\ i >= 2 /\ span.ended

\* The ramp was entered with a chunk size of at least 1 MB.
RampRanWithChunk == span.created = 1 /\ chunk_mb >= 1

\* The ramp has been left.
RampOver == pc \in {"main_except", "finally", "exit", "exited"}

\* The ramp is in FAILED: its MemoryError handler was entered.
RampFailed == endCause \in {"cap", "alloc_fail"}

StepOrder == <<"setup", "requests", "storage", "compaction", "jvm">>

\* The steps selected by --test, in that order.
Selected == IF args_test = "all" THEN StepOrder ELSE <<"setup", args_test>>

\* C18: no workload step runs unless connect succeeded; the steps run in the
\* fixed order, and a step that raised is the last one started; when the
\* script has exited, disconnect was called exactly once if connect succeeded
\* (and not at all otherwise), and the exit status is 0 exactly when connect
\* succeeded and every selected step completed.
C18_WorkloadRun ==
    /\ stepsStarted # <<>> => connectResult = "true"
    /\ IsPrefix(stepsStarted, Selected)
    /\ IsPrefix(stepsCompleted, stepsStarted)
    /\ raisedStep # "none" =>
         /\ stepsStarted = Append(stepsCompleted, raisedStep)
         /\ t_pc \in {"except", "finally", "sys_exit", "exited"}
    /\ disconnectCalls <= 1
    /\ disconnectCalls = 1 => connectResult = "true" /\ cluster = "shutdown"
    /\ t_pc \in {"sys_exit", "exited"} /\ connectResult = "true" => disconnectCalls = 1
    /\ t_pc = "exited" =>
         /\ t_exit \in {0, 1}
         /\ t_exit = 0 <=> (connectResult = "true" /\ stepsCompleted = Selected)
         /\ args_test = "all" => (success = "true" <=> t_exit = 0)

\* A full run stopped by its third step: two steps completed, the connection
\* was closed once, status 1.
C18_Witness ==
    /\ t_pc = "exited" /\ args_test = "all" /\ raisedStep = "storage"
    /\ stepsCompleted = <<"setup", "requests">> /\ disconnectCalls = 1 /\ t_exit = 1

====
